---- MODULE Spec2Model ----
(***************************************************************************)
(* The Maybe (Just / Nothing) and Result (Ok / Err) containers, the        *)
(* fromNullable conversion and the matchResult helper, as a state machine  *)
(* over a heap of container objects.  Every method is an operator from the *)
(* heap, the receiver and the arguments to the heap after the call, the    *)
(* returned value and the list of callback invocations it made.            *)
(***************************************************************************)
EXTENDS Integers, Sequences, FiniteSets, TLC

\* Numbers offered to constructors, fallbacks and lists are 0..MaxNum.
MaxNum == 1
\* The heap holds at most MaxObjs container objects.
MaxObjs == 3
\* Lists handed to safeHead have at most MaxLen elements.
MaxLen == 1

(***************************************************************************)
(* JavaScript values.  Every value is a record [t, n]: t is the type tag   *)
(* (for a failure object, its name field), n the number, the boolean as    *)
(* 0/1, the heap address of a container, or the attempts field.            *)
(***************************************************************************)
Num(k) == [t |-> "number", n |-> k]
Null == [t |-> "null", n |-> 0]
Undefined == [t |-> "undefined", n |-> 0]
NaN == [t |-> "NaN", n |-> 0]
Bool(b) == [t |-> "boolean", n |-> IF b THEN 1 ELSE 0]
Ref(i) == [t |-> "object", n |-> i]
InvalidCreditialsFailure(attempts) == [t |-> "InvalidCreditialsFailure", n |-> attempts]
TooManyLoginAttemptsFailure == [t |-> "TooManyLoginAttemptsFailure", n |-> 0]
\* An exception in flight in place of a returned value.
ReferenceError == [t |-> "ReferenceError", n |-> 0]
TypeError == [t |-> "TypeError", n |-> 0]
IsThrown(v) == v.t \in {"ReferenceError", "TypeError"}

\* ToNumber of the operands of *, / and %.
ToNumber(v) ==
    CASE v.t = "number" -> v
      [] v.t = "null" -> Num(0)
      [] v.t = "boolean" -> Num(v.n)
      [] OTHER -> NaN

Times(a, b) ==
    IF ToNumber(a).t = "NaN" \/ ToNumber(b).t = "NaN"
    THEN NaN
    ELSE Num(ToNumber(a).n * ToNumber(b).n)

\* value === null || value === undefined
IsNullish(v) == v.t = "null" \/ v.t = "undefined"

\* attempts > 5
isTooManyAttempts(attempts) == attempts.t = "number" /\ attempts.n > 5

(***************************************************************************)
(* Heap: a sequence of container objects, an object's address its index.   *)
(* Just, Ok and Err hold one field, value; Nothing holds none.             *)
(***************************************************************************)
Alloc(h, obj) == [heap |-> Append(h, obj), ret |-> Ref(Len(h) + 1)]

Just_of(h, value) == Alloc(h, [kind |-> "Just", value |-> value])
Nothing_of(h) == Alloc(h, [kind |-> "Nothing"])
Ok_of(h, value) == Alloc(h, [kind |-> "Ok", value |-> value])
Err_of(h, value) == Alloc(h, [kind |-> "Err", value |-> value])

fromNullable(h, value) ==
    IF IsNullish(value) THEN Just_of(h, value) ELSE Nothing_of(h)

(***************************************************************************)
(* Caller-supplied functions.  A function is a record with a name field;   *)
(* Compose(f, g) is x => f(x).flatMap(g).  Apply runs one on the heap and  *)
(* returns the heap after the call, the returned value and the callback    *)
(* invocations made inside the call.                                       *)
(***************************************************************************)
Fn(name) == [name |-> name]
Compose(f, g) == [name |-> "compose", f |-> f, g |-> g]
Invocation(fn, arg) == [fn |-> fn, arg |-> arg]
Pure(h, value) == [heap |-> h, ret |-> value, calls |-> << >>]
Made(a) == [heap |-> a.heap, ret |-> a.ret, calls |-> << >>]

\* const square = (x: number) => number * number: no value is named number.
square(h, x) == Pure(h, ReferenceError)

\* failure.attempts: reading a property of null or undefined throws.
AttemptsOf(failure) ==
    CASE IsNullish(failure) -> TypeError
      [] failure.t = "InvalidCreditialsFailure" -> Num(failure.n)
      [] OTHER -> Undefined

\* x > 0
IsPositive(x) == ToNumber(x).t = "number" /\ ToNumber(x).n > 0

RECURSIVE Apply(_, _, _)

\* An exception thrown by a caller's function leaves the method at once:
\* what would have followed the call is skipped.
Just_of_returned(r) == IF IsThrown(r.ret) THEN r ELSE Just_of(r.heap, r.ret)
Ok_of_returned(r) == IF IsThrown(r.ret) THEN r ELSE Ok_of(r.heap, r.ret)

(***************************************************************************)
(* class Just<A>                                                           *)
(***************************************************************************)
Just_isJust(h, self) == Pure(h, Bool(TRUE))

\* A flatMap that wraps what fn returned in another Just.
Just_flatMap_wrapping(h, self, fn) ==
    LET r == Apply(h, fn, h[self].value)
        a == Just_of(r.heap, r.ret)
    IN  [heap |-> a.heap, ret |-> a.ret,
         calls |-> <<Invocation(fn, h[self].value)>> \o r.calls]

Just_flatMap(h, self, fn) ==
    LET r == Apply(h, fn, h[self].value)
    IN  [heap |-> r.heap, ret |-> r.ret,
         calls |-> <<Invocation(fn, h[self].value)>> \o r.calls]

Just_map(h, self, fn) ==
    LET r == Apply(h, fn, h[self].value)
        a == Just_of_returned(r)
    IN  [heap |-> a.heap, ret |-> a.ret,
         calls |-> <<Invocation(fn, h[self].value)>> \o r.calls]

Just_orElse(h, self, handler) == Pure(h, Ref(self))

Just_getOrElse(h, self, fallback) == Pure(h, h[self].value)

(***************************************************************************)
(* class Nothing<A>                                                        *)
(***************************************************************************)
Nothing_isJust(h, self) == Pure(h, Bool(FALSE))

Nothing_flatMap(h, self, fn) == Made(Nothing_of(h))

Nothing_map(h, self, fn) == Made(Nothing_of(h))

Nothing_orElse(h, self, handler) ==
    LET r == Apply(h, handler, Undefined)
    IN  [heap |-> r.heap, ret |-> r.ret,
         calls |-> <<Invocation(handler, Undefined)>> \o r.calls]

Nothing_getOrElse(h, self, fallback) == Pure(h, fallback)

(***************************************************************************)
(* class Ok<TOk, TErr>                                                     *)
(***************************************************************************)
Ok_isOk(h, self) == Pure(h, Bool(TRUE))

\* A map that stores fn's result in the receiver and returns the receiver.
Ok_map_in_place(h, self, fn) ==
    LET r == Apply(h, fn, h[self].value)
    IN  [heap |-> [r.heap EXCEPT ![self].value = r.ret], ret |-> Ref(self),
         calls |-> <<Invocation(fn, h[self].value)>> \o r.calls]

Ok_map(h, self, fn) ==
    LET r == Apply(h, fn, h[self].value)
        a == Ok_of_returned(r)
    IN  [heap |-> a.heap, ret |-> a.ret,
         calls |-> <<Invocation(fn, h[self].value)>> \o r.calls]

Ok_flatMap(h, self, fn) ==
    LET r == Apply(h, fn, h[self].value)
    IN  [heap |-> r.heap, ret |-> r.ret,
         calls |-> <<Invocation(fn, h[self].value)>> \o r.calls]

\* An orElse that runs the recovery on the held value of an Ok.
Ok_orElse_recovering(h, self, fn) ==
    LET r == Apply(h, fn, h[self].value)
    IN  [heap |-> r.heap, ret |-> r.ret,
         calls |-> <<Invocation(fn, h[self].value)>> \o r.calls]

Ok_orElse(h, self, fn) == Pure(h, Ref(self))

Ok_getOrElse(h, self, fallback) == Pure(h, h[self].value)

(***************************************************************************)
(* class Err<TOk, TErr>                                                    *)
(***************************************************************************)
Err_isOk(h, self) == Pure(h, Bool(TRUE))

\* A map that applies fn to the held error.
Err_map_applying(h, self, fn) ==
    LET r == Apply(h, fn, h[self].value)
        a == Err_of(r.heap, r.ret)
    IN  [heap |-> a.heap, ret |-> a.ret,
         calls |-> <<Invocation(fn, h[self].value)>> \o r.calls]

Err_map(h, self, fn) == Made(Err_of(h, h[self].value))

\* A flatMap that rewraps the held error as an Ok.
Err_flatMap_as_Ok(h, self, fn) == Made(Ok_of(h, h[self].value))

Err_flatMap(h, self, fn) == Made(Err_of(h, h[self].value))

Err_orElse(h, self, fn) ==
    LET r == Apply(h, fn, h[self].value)
    IN  [heap |-> r.heap, ret |-> r.ret,
         calls |-> <<Invocation(fn, h[self].value)>> \o r.calls]

\* A getOrElse that hands out the held error.
Err_getOrElse_error(h, self, fallback) == Pure(h, h[self].value)

Err_getOrElse(h, self, fallback) == Pure(h, fallback)

(***************************************************************************)
(* Method calls through the Maybe and Result interfaces: the receiver's    *)
(* class selects the implementation.                                       *)
(***************************************************************************)
isJust(h, self) ==
    IF h[self].kind = "Just" THEN Just_isJust(h, self) ELSE Nothing_isJust(h, self)

isOk(h, self) ==
    IF h[self].kind = "Ok" THEN Ok_isOk(h, self) ELSE Err_isOk(h, self)

map(h, self, fn) ==
    CASE h[self].kind = "Just" -> Just_map(h, self, fn)
      [] h[self].kind = "Nothing" -> Nothing_map(h, self, fn)
      [] h[self].kind = "Ok" -> Ok_map(h, self, fn)
      [] h[self].kind = "Err" -> Err_map(h, self, fn)

flatMap(h, self, fn) ==
    CASE h[self].kind = "Just" -> Just_flatMap(h, self, fn)
      [] h[self].kind = "Nothing" -> Nothing_flatMap(h, self, fn)
      [] h[self].kind = "Ok" -> Ok_flatMap(h, self, fn)
      [] h[self].kind = "Err" -> Err_flatMap(h, self, fn)

orElse(h, self, fn) ==
    CASE h[self].kind = "Just" -> Just_orElse(h, self, fn)
      [] h[self].kind = "Nothing" -> Nothing_orElse(h, self, fn)
      [] h[self].kind = "Ok" -> Ok_orElse(h, self, fn)
      [] h[self].kind = "Err" -> Err_orElse(h, self, fn)

getOrElse(h, self, fallback) ==
    CASE h[self].kind = "Just" -> Just_getOrElse(h, self, fallback)
      [] h[self].kind = "Nothing" -> Nothing_getOrElse(h, self, fallback)
      [] h[self].kind = "Ok" -> Ok_getOrElse(h, self, fallback)
      [] h[self].kind = "Err" -> Err_getOrElse(h, self, fallback)

\* r.flatMap(g) for a returned container r; nothing after a throw.
flatMap_returned(r, g) ==
    IF IsThrown(r.ret) THEN Pure(r.heap, r.ret) ELSE flatMap(r.heap, r.ret.n, g)

\* The functions callers pass, by name: the README's square, the library's
\* fromNullable, and functions of the parameters' types.
Apply(h, fn, x) ==
    CASE fn.name = "square" -> square(h, x)
      [] fn.name = "x => x * x" -> Pure(h, Times(x, x))
      [] fn.name = "double" -> Pure(h, Times(x, Num(2)))
      [] fn.name = "attempts" -> Pure(h, AttemptsOf(x))
      [] fn.name = "fromNullable" -> Made(fromNullable(h, x))
      [] fn.name = "justDouble" -> Made(Just_of(h, Times(x, Num(2))))
      [] fn.name = "justPositive" ->
            Made(IF IsPositive(x) THEN Just_of(h, x) ELSE Nothing_of(h))
      [] fn.name = "justZero" -> Made(Just_of(h, Num(0)))
      [] fn.name = "nothing" -> Made(Nothing_of(h))
      [] fn.name = "okDouble" -> Made(Ok_of(h, Times(x, Num(2))))
      [] fn.name = "okPositive" ->
            Made(IF IsPositive(x) THEN Ok_of(h, x)
                 ELSE Err_of(h, TooManyLoginAttemptsFailure))
      [] fn.name = "checkTooManyAttempts" ->
            CASE IsThrown(AttemptsOf(x)) -> Pure(h, AttemptsOf(x))
              [] isTooManyAttempts(AttemptsOf(x)) ->
                    Made(Err_of(h, TooManyLoginAttemptsFailure))
              [] OTHER -> Made(Err_of(h, x))
      [] fn.name = "okZero" -> Made(Ok_of(h, Num(0)))
      [] fn.name = "compose" ->
            LET r == Apply(h, fn.f, x)
                s == flatMap_returned(r, fn.g)
            IN  [heap |-> s.heap, ret |-> s.ret,
                 calls |-> <<Invocation(fn.f, x)>> \o r.calls \o s.calls]

\* r.getOrElse(fallback) for a returned container r; nothing after a throw.
getOrElse_returned(r, fallback) ==
    IF IsThrown(r.ret) THEN Pure(r.heap, r.ret)
    ELSE getOrElse(r.heap, r.ret.n, fallback)

(***************************************************************************)
(* matchResult(match)(result)                                              *)
(***************************************************************************)
matchResult(h, matchOk, matchErr, result) ==
    IF isOk(h, result).ret = Bool(TRUE)
    THEN LET r == Apply(h, matchOk, h[result].value)
         IN  [heap |-> r.heap, ret |-> r.ret,
              calls |-> <<Invocation(matchOk, h[result].value)>> \o r.calls]
    ELSE LET r == Apply(h, matchErr, h[result].value)
         IN  [heap |-> r.heap, ret |-> r.ret,
              calls |-> <<Invocation(matchErr, h[result].value)>> \o r.calls]

(***************************************************************************)
(* The README's safeHead example.                                          *)
(***************************************************************************)
\* list[0]
First(list) == IF Len(list) > 0 THEN Num(list[1]) ELSE Undefined

safeHead(h, list) == fromNullable(h, First(list))

\* safeHead(list).map(square).getOrElse(0), for the function passed as square
safeHeadSquare(h, list, fn) ==
    LET a == safeHead(h, list)
        b == map(a.heap, a.ret.n, fn)
        c == getOrElse_returned(b, Num(0))
    IN  [heap |-> c.heap, ret |-> c.ret, calls |-> b.calls \o c.calls]

(***************************************************************************)
(* The state machine: callers construct containers and call their methods. *)
(*   heap    the container objects constructed so far                      *)
(*   origin  for each object, the call that constructed it, the receiver   *)
(*           of that call and the number of callback invocations it made   *)
(*   last    the last call: its name, receiver, arguments, returned value  *)
(*   calls   the callback invocations the last call made, in order         *)
(***************************************************************************)
VARIABLES heap, origin, last, calls

vars == <<heap, origin, last, calls>>

Numbers == {Num(k) : k \in 0..MaxNum}
Inputs == Numbers \cup {Null, Undefined}
Failures == {InvalidCreditialsFailure(3), InvalidCreditialsFailure(6),
             TooManyLoginAttemptsFailure}
Lists == UNION {[1..k -> 0..MaxNum] : k \in 0..MaxLen}

MapFns == {Fn("x => x * x"), Fn("double")}
\* What safeHeadSquare maps: the README's square, or the squaring it names.
Squares == {Fn("square"), Fn("x => x * x")}
MaybeFlatMapFns == {Fn("fromNullable"), Fn("justDouble"), Fn("justPositive")}
MaybeHandlers == {Fn("justZero"), Fn("nothing")}
ResultFlatMapFns == {Fn("okDouble"), Fn("okPositive")}
ResultHandlers == {Fn("checkTooManyAttempts"), Fn("okZero")}
ErrMatchFns == {Fn("attempts")}

Objects == 1..Len(heap)
IsMaybe(obj) == obj.kind \in {"Just", "Nothing"}
IsResult(obj) == obj.kind \in {"Ok", "Err"}
\* A caller holds the container it constructed and the newest one a call made.
Held == {i \in Objects : i = 1 \/ i = Len(heap)}
Maybes == {i \in Held : IsMaybe(heap[i])}
Results == {i \in Held : IsResult(heap[i])}

Init ==
    /\ heap = << >>
    /\ origin = << >>
    /\ last = [op |-> "none"]
    /\ calls = << >>

\* The call `call` returned r: the objects it constructed join the heap.
Return(call, self, r) ==
    /\ Len(r.heap) <= MaxObjs
    /\ heap' = r.heap
    /\ origin' = origin \o [i \in 1..(Len(r.heap) - Len(heap)) |->
                               [op |-> call.op, from |-> self, calls |-> Len(r.calls)]]
    /\ last' = call
    /\ calls' = r.calls

\* An expression was evaluated to r and its temporaries dropped.
Evaluated(call, r) ==
    /\ UNCHANGED <<heap, origin>>
    /\ last' = call
    /\ calls' = r.calls

NewJust ==
    /\ heap = << >>
    /\ \E v \in Numbers :
        LET r == Made(Just_of(heap, v))
        IN  Return([op |-> "Just.of", arg |-> v, ret |-> r.ret], 0, r)

NewNothing ==
    /\ heap = << >>
    /\ LET r == Made(Nothing_of(heap))
       IN  Return([op |-> "Nothing.of", ret |-> r.ret], 0, r)

NewOk ==
    /\ heap = << >>
    /\ \E v \in Numbers :
        LET r == Made(Ok_of(heap, v))
        IN  Return([op |-> "Ok.of", arg |-> v, ret |-> r.ret], 0, r)

NewErr ==
    /\ heap = << >>
    /\ \E e \in Failures :
        LET r == Made(Err_of(heap, e))
        IN  Return([op |-> "Err.of", arg |-> e, ret |-> r.ret], 0, r)

FromNullable ==
    /\ heap = << >>
    /\ \E v \in Inputs :
        LET r == Made(fromNullable(heap, v))
        IN  Return([op |-> "fromNullable", arg |-> v, ret |-> r.ret], 0, r)

IsJust ==
    \E self \in Maybes :
        LET r == isJust(heap, self)
        IN  Return([op |-> "isJust", self |-> self, ret |-> r.ret], self, r)

IsOk ==
    \E self \in Results :
        LET r == isOk(heap, self)
        IN  Return([op |-> "isOk", self |-> self, ret |-> r.ret], self, r)

Map ==
    \E self \in Held, fn \in MapFns :
        LET r == map(heap, self, fn)
        IN  Return([op |-> "map", self |-> self, fn |-> fn, ret |-> r.ret], self, r)

FlatMap ==
    \/ \E self \in Maybes, fn \in MaybeFlatMapFns :
        LET r == flatMap(heap, self, fn)
        IN  Return([op |-> "flatMap", self |-> self, fn |-> fn, ret |-> r.ret], self, r)
    \/ \E self \in Results, fn \in ResultFlatMapFns :
        LET r == flatMap(heap, self, fn)
        IN  Return([op |-> "flatMap", self |-> self, fn |-> fn, ret |-> r.ret], self, r)

OrElse ==
    \/ \E self \in Maybes, fn \in MaybeHandlers :
        LET r == orElse(heap, self, fn)
        IN  Return([op |-> "orElse", self |-> self, fn |-> fn, ret |-> r.ret], self, r)
    \/ \E self \in Results, fn \in ResultHandlers :
        LET r == orElse(heap, self, fn)
        IN  Return([op |-> "orElse", self |-> self, fn |-> fn, ret |-> r.ret], self, r)

GetOrElse ==
    \E self \in Held, fallback \in Numbers :
        LET r == getOrElse(heap, self, fallback)
        IN  Return([op |-> "getOrElse", self |-> self, arg |-> fallback,
                    ret |-> r.ret], self, r)

MatchResult ==
    \E self \in Results, matchOk \in MapFns, matchErr \in ErrMatchFns :
        LET r == matchResult(heap, matchOk, matchErr, self)
        IN  Return([op |-> "matchResult", self |-> self, Ok |-> matchOk,
                    Err |-> matchErr, ret |-> r.ret], self, r)

SafeHeadSquare ==
    /\ heap = << >>
    /\ \E list \in Lists, fn \in Squares :
        LET r == safeHeadSquare(heap, list, fn)
        IN  Evaluated([op |-> "safeHeadSquare", list |-> list, fn |-> fn,
                       ret |-> r.ret], r)

\* c.flatMap(f).flatMap(g) and c.flatMap(x => f(x).flatMap(g)), both evaluated.
Chained(h, c, f, g) ==
    LET a == flatMap(h, c, f)
        b == flatMap_returned(a, g)
    IN  [heap |-> b.heap, ret |-> b.ret, calls |-> a.calls \o b.calls]

Nested(h, c, f, g) == flatMap(h, c, Compose(f, g))

Associate ==
    \/ \E c \in Maybes, f \in MaybeFlatMapFns, g \in MaybeFlatMapFns :
        LET l == Chained(heap, c, f, g)
            r == Nested(heap, c, f, g)
        IN  Evaluated([op |-> "associate", self |-> c, f |-> f, g |-> g,
                       chained |-> l.heap[l.ret.n], nested |-> r.heap[r.ret.n]], l)
    \/ \E c \in Results, f \in ResultFlatMapFns, g \in ResultFlatMapFns :
        LET l == Chained(heap, c, f, g)
            r == Nested(heap, c, f, g)
        IN  Evaluated([op |-> "associate", self |-> c, f |-> f, g |-> g,
                       chained |-> l.heap[l.ret.n], nested |-> r.heap[r.ret.n]], l)

Next ==
    \/ NewJust
    \/ NewNothing
    \/ NewOk
    \/ NewErr
    \/ FromNullable
    \/ IsJust
    \/ IsOk
    \/ Map
    \/ FlatMap
    \/ OrElse
    \/ GetOrElse
    \/ MatchResult
    \/ SafeHeadSquare
    \/ Associate

Spec == Init /\ [][Next]_vars

(***************************************************************************)
(* Properties.                                                             *)
(***************************************************************************)
IsGood(obj) == obj.kind \in {"Just", "Ok"}
IsBad(obj) == obj.kind \in {"Nothing", "Err"}

\* C1: fromNullable(x) is a Just holding x when x is a real value and a
\* Nothing when x is null or undefined: isJust() tells which, and
\* getOrElse(d) is x for a real value and d for null or undefined.
C1_FromNullableKeepsRealValues ==
    last.op = "fromNullable" =>
        /\ isJust(heap, last.ret.n).ret = Bool(~IsNullish(last.arg))
        /\ \A d \in Numbers :
              getOrElse(heap, last.ret.n, d).ret =
                  IF IsNullish(last.arg) THEN d ELSE last.arg

\* C2: isOk() is true for every Ok and false for every Err.
C2_IsOkTellsTheVariant ==
    last.op = "isOk" => last.ret = Bool(heap[last.self].kind = "Ok")

\* C3: matchResult invokes exactly one handler exactly once, match.Ok with
\* the value of an Ok and match.Err with the error of an Err, and returns
\* what that handler returned.
C3_MatchResultDispatches ==
    last.op = "matchResult" =>
        LET result == heap[last.self]
            handler == IF result.kind = "Ok" THEN last.Ok ELSE last.Err
        IN  /\ calls = <<Invocation(handler, result.value)>>
            /\ last.ret = Apply(heap, handler, result.value).ret

\* C4: safeHead(list).map(x => x * x).getOrElse(0) is the square of the first
\* element of a non-empty list and 0 for the empty list.
C4_SafeHeadSquare ==
    (last.op = "safeHeadSquare" /\ last.fn = Fn("x => x * x")) =>
        last.ret = IF Len(last.list) > 0
                   THEN Num(last.list[1] * last.list[1])
                   ELSE Num(0)

\* The container a chain of map / flatMap calls started from, the number of
\* calls in the chain and the callback invocations the chain made.
RECURSIVE ChainRoot(_)
ChainRoot(o) ==
    IF origin[o].op \in {"map", "flatMap"} THEN ChainRoot(origin[o].from) ELSE o

RECURSIVE ChainLength(_)
ChainLength(o) ==
    IF origin[o].op \in {"map", "flatMap"} THEN 1 + ChainLength(origin[o].from) ELSE 0

RECURSIVE ChainInvocations(_)
ChainInvocations(o) ==
    IF origin[o].op \in {"map", "flatMap"}
    THEN origin[o].calls + ChainInvocations(origin[o].from)
    ELSE 0

\* C5: map and flatMap on a Nothing or an Err invoke nothing and return a
\* Nothing, or an Err holding the same error; so does every chain of map and
\* flatMap calls that starts from a Nothing or an Err.
C5_BadVariantPropagates ==
    /\ (last.op \in {"map", "flatMap"} /\ IsBad(heap[last.self])) =>
          /\ calls = << >>
          /\ last.ret.t = "object"
          /\ heap[last.ret.n] = heap[last.self]
    /\ \A o \in Objects :
          IsBad(heap[ChainRoot(o)]) =>
              /\ heap[o] = heap[ChainRoot(o)]
              /\ ChainInvocations(o) = 0

C5_Witness ==
    /\ last.op \in {"map", "flatMap"}
    /\ heap[last.self].kind = "Err"
    /\ last.ret.t = "object"
    /\ ChainLength(last.ret.n) >= 2
    /\ heap[ChainRoot(last.ret.n)].kind = "Err"

\* C6: map on a Just or an Ok invokes fn once, on the held value, and returns
\* a new container of the same class holding fn's result; flatMap on a Just or
\* an Ok invokes fn once, on the held value, and returns what fn returned,
\* constructing nothing of its own.
C6_GoodVariantTransforms ==
    [][/\ (last'.op = "map" /\ IsGood(heap[last'.self])) =>
            LET v == heap[last'.self].value
                r == Apply(heap, last'.fn, v)
            IN  /\ calls' = <<Invocation(last'.fn, v)>>
                /\ heap' = Append(r.heap, [kind |-> heap[last'.self].kind,
                                           value |-> r.ret])
                /\ last'.ret = Ref(Len(heap'))
       /\ (last'.op = "flatMap" /\ IsGood(heap[last'.self])) =>
            LET v == heap[last'.self].value
                r == Apply(heap, last'.fn, v)
            IN  /\ calls' = <<Invocation(last'.fn, v)>>
                /\ heap' = r.heap
                /\ last'.ret = r.ret]_vars

C6_Witness ==
    /\ last.op = "flatMap"
    /\ heap[last.self].kind = "Ok"
    /\ heap[last.self].value = Num(1)
    /\ last.fn = Fn("okDouble")
    /\ heap[last.ret.n] = [kind |-> "Ok", value |-> Num(2)]
    /\ calls = <<Invocation(Fn("okDouble"), Num(1))>>

\* C7: orElse on a Just or an Ok returns the receiver and invokes nothing;
\* on a Nothing it returns handler(), on an Err fn(e) for the held error e:
\* a recovery that fails again after more than 5 attempts returns an Err
\* with the held error for 3 attempts and one with TooManyLoginAttempts for 6.
C7_OrElseRecoversTheBadVariant ==
    [][last'.op = "orElse" =>
         LET self == last'.self
         IN  /\ IsGood(heap[self]) =>
                  /\ last'.ret = Ref(self)
                  /\ calls' = << >>
                  /\ heap' = heap
             /\ heap[self].kind = "Nothing" =>
                  LET r == Apply(heap, last'.fn, Undefined)
                  IN  /\ last'.ret = r.ret
                      /\ heap' = r.heap
                      /\ calls' = <<Invocation(last'.fn, Undefined)>>
             /\ heap[self].kind = "Err" =>
                  LET r == Apply(heap, last'.fn, heap[self].value)
                  IN  /\ last'.ret = r.ret
                      /\ heap' = r.heap
                      /\ calls' = <<Invocation(last'.fn, heap[self].value)>>
             /\ (heap[self].kind = "Err" /\ last'.fn = Fn("checkTooManyAttempts")
                   /\ heap[self].value = InvalidCreditialsFailure(3)) =>
                  heap'[last'.ret.n] = [kind |-> "Err",
                                        value |-> InvalidCreditialsFailure(3)]
             /\ (heap[self].kind = "Err" /\ last'.fn = Fn("checkTooManyAttempts")
                   /\ heap[self].value = InvalidCreditialsFailure(6)) =>
                  heap'[last'.ret.n] = [kind |-> "Err",
                                        value |-> TooManyLoginAttemptsFailure]]_vars

C7_Witness ==
    /\ last.op = "orElse"
    /\ last.fn = Fn("checkTooManyAttempts")
    /\ heap[last.self] = [kind |-> "Err", value |-> InvalidCreditialsFailure(6)]
    /\ last.ret # Ref(last.self)
    /\ heap[last.ret.n] = [kind |-> "Err", value |-> TooManyLoginAttemptsFailure]
    /\ calls = <<Invocation(Fn("checkTooManyAttempts"), InvalidCreditialsFailure(6))>>

\* C8: getOrElse(d) returns the held value of a Just or an Ok, whatever d is,
\* and d for a Nothing or an Err, whatever the error is.
C8_GetOrElse ==
    last.op = "getOrElse" =>
        last.ret = IF IsGood(heap[last.self])
                   THEN heap[last.self].value
                   ELSE last.arg

C8_Witness ==
    /\ last.op = "getOrElse"
    /\ heap[last.self].kind = "Err"
    /\ last.ret = last.arg
    /\ last.ret # heap[last.self].value

\* C9: c.flatMap(f).flatMap(g) and c.flatMap(x => f(x).flatMap(g)) are
\* containers of the same class holding the same value.
C9_FlatMapAssociative ==
    last.op = "associate" => last.chained = last.nested

C9_Witness ==
    /\ last.op = "associate"
    /\ heap[last.self].kind = "Ok"
    /\ Len(calls) = 2
    /\ last.chained.kind = "Ok"
    /\ last.chained.value # heap[last.self].value

\* C10: no call changes a container: every object of the heap keeps its
\* class and its held value through every call.
C10_ContainersImmutable ==
    [][\A i \in 1..Len(heap) : i <= Len(heap') /\ heap'[i] = heap[i]]_vars

C10_Witness ==
    /\ Len(heap) = 3
    /\ origin[2].from = 1
    /\ origin[3].from = 1
    /\ origin[2].op = "map"
    /\ origin[3].op = "flatMap"
    /\ last.op = "getOrElse"
    /\ last.self = 1
    /\ IsGood(heap[1])

====
